---- MODULE Spec2Model ----
(***************************************************************************)
(* State-machine model of the Prothom Alo scraper: the date-window loop    *)
(* (Scraper.begin / date_iterable), the page loop                          *)
(* (fetch_articles_in_date_range / offset_iterable), the Requester's       *)
(* retry loop, the Processor's acceptance filter, the Saver's yearly csv   *)
(* files and Config.update, which rewrites the json state file.            *)
(*                                                                         *)
(* A datetime is a number of clock ticks, TicksPerDay ticks to a day.  A   *)
(* "DD-MM-YYYY" string is represented by the ordinal of the day it names,  *)
(* so date_to_string drops the time of day and string_to_date yields       *)
(* midnight of the named day.                                              *)
(***************************************************************************)
EXTENDS Integers, Sequences, FiniteSets, TLC

(* ------------------------------ bounds -------------------------------- *)
\* wall clock: datetime.now() never exceeds MaxNow ticks in the model
MaxNow == 3
\* the remote API returns at most MaxItems raw records in one response
MaxItems == 1
\* the remote API reports exhaustion at the latest at page index MaxPages
MaxPages == 1
\* number of process starts (the first run and the restarts)
MaxRuns == 2

(* ------------------------- program constants -------------------------- *)
\* resolution of the clock below one day
TicksPerDay == 2
\* number of days in one calendar year of the model ("%Y" of a date)
DaysPerYear == 2
\* Requester.wait: sleep_time = 30 * attempt
WaitDelta == 30

\* Python None as the value of a json field
None == -1
\* Python None as the value of a text field of a record
NoText == "None"

(* ----------------------------- utils.py ------------------------------- *)
\* utils.date_to_string: strftime("%d-%m-%Y") keeps the day, drops the time
date_to_string(date) == date \div TicksPerDay

\* utils.string_to_date: strptime("%d-%m-%Y") is midnight of that day
string_to_date(date_str) == date_str * TicksPerDay

(* ----------------------------- config.py ------------------------------ *)
\* last_scraped_date that ignores the persisted value
last_scraped_date_start_only(c) == string_to_date(c.start_date)

\* Config.last_scraped_date property
last_scraped_date(c) ==
    IF c.last_scraped_date # None
    THEN string_to_date(c.last_scraped_date)
    ELSE string_to_date(c.start_date)

\* time_delta that ignores the configured threshold
time_delta_one_day(c) == TicksPerDay

\* time_delta of twice the threshold
time_delta_twice(c) == 2 * c.threshold * TicksPerDay

\* time_delta of a threshold of 0 days
time_delta_zero(c) == 0

\* Config.time_delta property: timedelta(days=threshold)
time_delta(c) == c.threshold * TicksPerDay

\* update_configs with `=` in the place of `+=`
update_configs_assign(c, newly_added, last_scrapped_date) ==
    [c EXCEPT !.total = newly_added,
              !.last_scraped_date = date_to_string(last_scrapped_date)]

\* update_configs that counts one per page
update_configs_counts_pages(c, newly_added, last_scrapped_date) ==
    [c EXCEPT !.total = c.total + 1,
              !.last_scraped_date = date_to_string(last_scrapped_date)]

\* update_configs that stores the day before the date it is given
update_configs_day_before(c, newly_added, last_scrapped_date) ==
    [c EXCEPT !.total = c.total + newly_added,
              !.last_scraped_date = date_to_string(last_scrapped_date) - 1]

\* update_configs without the assignment of line 126
update_configs_keeps_date(c, newly_added, last_scrapped_date) ==
    [c EXCEPT !.total = c.total + newly_added]

\* Config.update, lines 123-126: the in-memory mutation
update_configs(c, newly_added, last_scrapped_date) ==
    [c EXCEPT !.total = c.total + newly_added,
              !.last_scraped_date = date_to_string(last_scrapped_date)]

\* the state file: its json content, or a truncated file that json.load rejects
Corrupt == [ok |-> FALSE]
FileOf(c) == [ok |-> TRUE, data |-> c]

\* the configurations a config.json may hold
Configs ==
    [last_scraped_date : {None, 1},
     start_date : {0},
     total : {0, 1},
     threshold : {1, 2},
     limit : {1, 2},
     max_attempts : {0, 1, 2}]

(* ---------------------------- processor.py ---------------------------- *)
\* raw records of the remote API: the headline is absent, empty or a text;
\* "cards" is absent or gives a content that is empty or a text; "sections"
\* is absent or present
RawItems ==
    { [headline |-> "h", cards |-> "c", sections |-> TRUE],
      [headline |-> "",  cards |-> "c", sections |-> TRUE],
      [headline |-> "h", cards |-> "",  sections |-> TRUE],
      [headline |-> NoText, cards |-> "c", sections |-> TRUE],
      [headline |-> "h", cards |-> NoText, sections |-> TRUE],
      [headline |-> "h", cards |-> "c", sections |-> FALSE] }

\* Processor.construct_content_text: item["cards"] raises KeyError when absent
construct_content_text_raises(item) == item.cards = NoText

\* Processor.construct_sections_text: `tags` is unbound when item has no
\* "sections", so `return tags` raises UnboundLocalError
construct_sections_text_raises(item) == ~item.sections

\* Processor.parse_data raises when one of its helpers raises
parse_data_raises(item) ==
    construct_content_text_raises(item) \/ construct_sections_text_raises(item)

\* Processor.parse_data: the ItemModel fields the acceptance filter reads
parse_data(item) == [headline |-> item.headline, content |-> item.cards]

(* ------------------------------ models.py ----------------------------- *)
\* is_acceptable that looks at the headline only
is_acceptable_headline_only(item) ==
    item.headline # NoText /\ item.headline # ""

\* ItemsModel.is_acceptable
is_acceptable(item) ==
    IF item.headline # NoText /\ item.content # NoText
    THEN item.headline # "" /\ item.content # ""
    ELSE FALSE

\* Processor.__call__ raises when parse_data raises on one of the records
processor_raises(items_in) ==
    \E i \in 1..Len(items_in) : parse_data_raises(items_in[i])

\* the exception Processor.__call__ raises: that of the first record whose
\* parse_data raises, where construct_content_text (line 50) runs before
\* construct_sections_text (line 71)
processor_error(items_in) ==
    LET first == CHOOSE i \in 1..Len(items_in) :
                    /\ parse_data_raises(items_in[i])
                    /\ \A j \in 1..(i - 1) : ~parse_data_raises(items_in[j])
    IN  IF construct_content_text_raises(items_in[first])
        THEN "KeyError"
        ELSE "UnboundLocalError"

\* Processor.__call__ with ItemsModel.add: the accepted items, in order
processor(items_in) ==
    SelectSeq([i \in 1..Len(items_in) |-> parse_data(items_in[i])], is_acceptable)

(* ------------------------------ saver.py ------------------------------ *)
\* calendar years the model's clock can reach
Years == 0..(MaxNow \div (TicksPerDay * DaysPerYear))

\* Saver.construct_output_filepath: strftime("%Y") of the window start
construct_output_filepath(current_date) ==
    date_to_string(current_date) \div DaysPerYear

\* Saver.__call__: to_csv(mode="a", header=not os.path.exists(path)) appends
\* the header line when the file does not exist, then one line per item
saver_lines(csv, n_items, exists) ==
    csv \o (IF ~exists THEN <<"header">> ELSE <<>>)
        \o [i \in 1..n_items |-> "row"]

\* what a to_csv call that raises can leave in the file: the lines it had,
\* followed by any number of the lines the call was writing
saver_lines_written(csv, n_items, exists) ==
    LET full == saver_lines(csv, n_items, exists) IN
    { SubSeq(full, 1, k) : k \in Len(csv)..Len(full) }

\* the data rows of all the csv files
RECURSIVE SumRows(_, _)
SumRows(s, ys) ==
    IF ys = {} THEN 0
    ELSE LET y == CHOOSE z \in ys : TRUE IN
         Cardinality({ i \in 1..Len(s[y]) : s[y][i] = "row" }) + SumRows(s, ys \ {y})
SinkRows(s) == SumRows(s, Years)

(* ---------------------------- requester.py ---------------------------- *)
\* Requester.wait, line 84: the sleep time of a failed attempt
sleep_time(attempt) == WaitDelta * attempt

\* Requester.wait, line 85: Logger.log is called with the message in the
\* place of the level, which raises TypeError before time.sleep is reached
wait_raises(attempt) == TRUE

\* bodies response.json() can return: a mapping with "total" and "items", or
\* a json value without them
Responses ==
    { [kind |-> "malformed", total |-> 0, items |-> <<>>] } \cup
    [kind : {"ok"}, total : 0..1,
     items : UNION { [1..n -> RawItems] : n \in 0..MaxItems }]

(* ----------------------------- scraper.py ----------------------------- *)
\* the loop of fetch_articles_in_date_range without its break
is_exhausted_never(response) == FALSE

\* is_exhausted without its test of the items
is_exhausted_total_only(response) == response.total = 0

\* is_exhausted that counts the records the acceptance filter kept
is_exhausted_after_filter(response) ==
    response.total = 0 \/ Len(processor(response.items)) = 0

\* fetch_articles_in_date_range, line 73: the loop's break condition
is_exhausted(response) == response.total = 0 \/ Len(response.items) = 0

\* the raw records of a response that fetch_articles_in_date_range takes as
\* a page (total is not 0 and every record parses), else 0
RawRecords(response) ==
    IF /\ response.kind = "ok"
       /\ response.total # 0
       /\ ~processor_raises(response.items)
    THEN Len(response.items)
    ELSE 0

\* next_offset that counts pages in the place of records
next_offset_one(offset_, limit) == offset_ + 1

\* offset_iterable, line 125: the offset of the next page
next_offset(offset_, limit) == offset_ + limit

\* except_handler_pc of a begin without the try statement
except_handler_pc_uncaught == "aborted"

\* begin, lines 41-42: `except Exception` logs a warning and the for loop
\* asks date_iterable for the next window
except_handler_pc == "date_iter"

\* the records of a page that have a non-empty headline and a non-empty
\* body text
AcceptableRecords(items) ==
    Cardinality({ i \in 1..Len(items) :
                    /\ items[i].headline \notin {NoText, ""}
                    /\ items[i].cards \notin {NoText, ""} })

VARIABLES
    configs,          \* Config.configs, the in-memory json mapping
    file,             \* the content of the config file on disk
    sink,             \* the csv file of every year, as its sequence of lines
    now,              \* datetime.now()
    pc,               \* where the process is
    current_date,     \* date_iterable's local
    date_start,       \* begin's loop variable
    date_end,         \* begin's local
    offset,           \* offset_iterable's local
    attempt,          \* Requester.__call__'s loop variable
    processed_items,  \* number of items of the ItemsModel being saved
    runs,             \* number of process starts so far
    \* observations of the run, for stating the properties
    fetch_calls,      \* Requester calls made for the current window
    commits,          \* Config.update calls completed for the current window
    attempts_made,    \* requests.get calls of the current Requester call
    sleeps,           \* time.sleep durations of the current Requester call
    lsd_before,       \* Config.last_scraped_date when the window began
    outcome,          \* how the window ended, until the next one begins
    cause,            \* what raised, when the window ended fatally
    first_exhausted,  \* first offset of the window with an exhausted response
    first_fatal,      \* start of the first window of this run that ended fatally
    offered,          \* starts of the windows date_iterable yielded this run
    persist_failed,   \* Config.update raised during this run
    crash_window,     \* start of the window being drained when killed
    total_at_start,   \* Config.total when the run began
    fresh,            \* no last_scraped_date was persisted when the run began
    accepted_sum,     \* acceptable records of the pages this run committed
    committed_windows, \* windows of this run with at least one update
    page_accepted,    \* acceptable records of the page being handled
    appended_now,     \* pages (window start, offset) this run appended to the csv
    committed_now,    \* pages whose update this run completed
    appended_prev,    \* pages earlier runs appended to the csv
    committed_prev,   \* pages whose update earlier runs completed
    lost_commit,      \* the Config.update call the kill interrupted (all -1 when none)
    replayed,         \* this run made that call again
    page_raw,         \* raw records of the page in flight (0 when none)
    rows_at_start,    \* data rows the csv files held when this run started
    sink_failed,      \* Saver.__call__ raised during this run
    sink_exists,      \* the years whose csv file exists
    trailing_empty,   \* starts of the windows that ended empty since the last update of this run
    trailing_other,   \* a window since the last update of this run ended in a failure
    prev_empty,       \* the trailing empty windows of the run before, when it ended with them
    lsd_at_start      \* last_scraped_date as this run loaded it

vars == <<configs, file, sink, now, pc, current_date, date_start, date_end,
          offset, attempt, processed_items, runs, fetch_calls, commits,
          attempts_made, sleeps, lsd_before, outcome, cause, first_exhausted,
          first_fatal, offered, persist_failed, crash_window,
          total_at_start, fresh, accepted_sum, committed_windows, page_accepted,
          appended_now, committed_now, appended_prev, committed_prev,
          lost_commit, replayed,
          page_raw,
          rows_at_start, sink_failed,
          sink_exists,
          trailing_empty, trailing_other, prev_empty,
          lsd_at_start>>

prog == <<current_date, date_start, date_end, offset, attempt, processed_items>>
obs == <<fetch_calls, commits, attempts_made, sleeps, lsd_before, outcome,
         cause, first_exhausted, first_fatal, offered, persist_failed,
         crash_window>>

acct == <<total_at_start, fresh, accepted_sum, committed_windows, page_accepted>>

pages == <<appended_now, committed_now, appended_prev, committed_prev>>

replay == <<lost_commit, replayed>>

\* a Config.update call: the page it is for, its arguments and the total the
\* state file held when it was made
NoCommit == [window |-> -1, offset |-> -1, added |-> -1, through |-> -1,
             persisted |-> -1]
CommitCall ==
    [window |-> date_start, offset |-> offset, added |-> processed_items,
     through |-> date_end,
     persisted |-> IF file.ok THEN file.data.total ELSE -1]
SameCall(a, b) ==
    /\ a.window = b.window /\ a.offset = b.offset
    /\ a.added = b.added /\ a.through = b.through

inflight == <<page_raw>>

sinkobs == <<rows_at_start, sink_failed>>

disk == <<sink_exists>>

trail == <<trailing_empty, trailing_other, prev_empty>>

startobs == <<lsd_at_start>>

Running == {"date_iter", "request", "save", "update"}

\* Scraper.__init__ and the first step of date_iterable (line 105)
Init ==
    /\ configs \in Configs
    /\ file = FileOf(configs)
    /\ sink = [y \in Years |-> <<>>]
    /\ now = 1
    /\ pc = "date_iter"
    /\ current_date = last_scraped_date(configs)
    /\ date_start = 0 /\ date_end = 0 /\ offset = 0 /\ attempt = 1
    /\ processed_items = 0
    /\ runs = 1
    /\ fetch_calls = 0 /\ commits = 0 /\ attempts_made = 0 /\ sleeps = <<>>
    /\ lsd_before = last_scraped_date(configs)
    /\ outcome = "none" /\ cause = "none" /\ first_exhausted = -1
    /\ first_fatal = -1 /\ offered = {} /\ persist_failed = FALSE
    /\ crash_window = -1
    /\ total_at_start = configs.total
    /\ fresh = (configs.last_scraped_date = None)
    /\ accepted_sum = 0 /\ committed_windows = 0 /\ page_accepted = 0
    /\ appended_now = {} /\ committed_now = {}
    /\ appended_prev = {} /\ committed_prev = {}
    /\ lost_commit = NoCommit /\ replayed = FALSE
    /\ page_raw = 0
    /\ rows_at_start = 0 /\ sink_failed = FALSE
    /\ sink_exists = {}
    /\ trailing_empty = {} /\ trailing_other = FALSE /\ prev_empty = {}
    /\ lsd_at_start = last_scraped_date(configs)

\* date_iterable, lines 107-108, and begin, lines 32-40: the next window is
\* yielded and its first Requester call begins
DateIterNext ==
    /\ pc = "date_iter"
    /\ current_date < now
    /\ date_start' = current_date
    /\ date_end' = current_date + time_delta(configs)
    /\ offset' = 0
    /\ attempt' = 1
    /\ pc' = "request"
    /\ fetch_calls' = 1 /\ commits' = 0 /\ attempts_made' = 0 /\ sleeps' = <<>>
    /\ lsd_before' = last_scraped_date(configs)
    /\ first_exhausted' = -1
    /\ offered' = offered \cup {current_date}
    /\ outcome' = "none" /\ cause' = "none"
    /\ UNCHANGED <<configs, file, sink, now, current_date, processed_items,
                   runs, first_fatal, persist_failed, crash_window>>
    /\ UNCHANGED acct
    /\ UNCHANGED pages
    /\ UNCHANGED replay
    /\ page_raw' = 0
    /\ UNCHANGED sinkobs
    /\ UNCHANGED disk
    /\ UNCHANGED trail
    /\ UNCHANGED startobs

\* date_iterable, lines 107 and 111: the loop ends and begin returns
DateIterStop ==
    /\ pc = "date_iter"
    /\ ~(current_date < now)
    /\ pc' = "done"
    /\ UNCHANGED <<configs, file, sink, now, prog, runs, obs>>
    /\ UNCHANGED acct
    /\ UNCHANGED pages
    /\ UNCHANGED replay
    /\ UNCHANGED inflight
    /\ UNCHANGED sinkobs
    /\ UNCHANGED disk
    /\ UNCHANGED trail
    /\ UNCHANGED startobs

\* the window ends: date_iterable resumes at line 109
WindowEnds(how, why) ==
    /\ current_date' = current_date + time_delta(configs)
    /\ outcome' = how
    /\ cause' = why
    /\ first_fatal' =
         IF how = "fatal" /\ first_fatal = -1 THEN date_start ELSE first_fatal
    /\ pc' = IF how = "fatal" THEN except_handler_pc ELSE "date_iter"
    /\ trailing_empty' = IF how = "normal" /\ offset = 0
                         THEN trailing_empty \cup {date_start}
                         ELSE trailing_empty
    /\ trailing_other' = (trailing_other \/ how = "fatal")

\* an exception leaves fetch_articles_in_date_range and reaches begin's
\* except clause
WindowFatal(why) == WindowEnds("fatal", why)

\* Requester.__call__, lines 63-69, returns a response, and
\* fetch_articles_in_date_range, lines 73-77, examines and processes it
RequestReturns ==
    /\ pc = "request"
    /\ attempt <= configs.max_attempts
    /\ \E response \in Responses :
        /\ page_raw' = RawRecords(response)
        /\ offset >= MaxPages * configs.limit =>
               response.kind = "malformed" \/ is_exhausted(response)
        /\ attempts_made' = attempts_made + 1
        /\ first_exhausted' =
             IF /\ first_exhausted = -1
                /\ response.kind = "ok"
                /\ (response.total = 0 \/ response.items = <<>>)
             THEN offset
             ELSE first_exhausted
        /\ IF response.kind = "malformed"
           THEN /\ WindowFatal("response")
                /\ UNCHANGED <<processed_items, page_accepted>>
           ELSE IF is_exhausted(response)
           THEN /\ WindowEnds("normal", "none")
                /\ UNCHANGED <<processed_items, page_accepted>>
           ELSE IF processor_raises(response.items)
           THEN /\ WindowFatal(processor_error(response.items))
                /\ UNCHANGED <<processed_items, page_accepted>>
           ELSE /\ processed_items' = Len(processor(response.items))
                /\ page_accepted' = AcceptableRecords(response.items)
                /\ pc' = "save"
                /\ UNCHANGED <<current_date, outcome, cause, first_fatal,
                               trailing_empty, trailing_other>>
    /\ UNCHANGED <<configs, file, sink, now, date_start, date_end, offset,
                   attempt, runs, fetch_calls, commits, sleeps, lsd_before,
                   offered, persist_failed, crash_window>>
    /\ UNCHANGED <<total_at_start, fresh, accepted_sum, committed_windows>>
    /\ UNCHANGED pages
    /\ UNCHANGED replay
    /\ UNCHANGED sinkobs
    /\ UNCHANGED disk
    /\ UNCHANGED prev_empty
    /\ UNCHANGED startobs

\* Requester.__call__, lines 70-72: an attempt raises, the warning is logged
\* and wait(attempt) is called; what wait raises leaves __call__
RequestFails ==
    /\ pc = "request"
    /\ attempt <= configs.max_attempts
    /\ attempts_made' = attempts_made + 1
    /\ IF wait_raises(attempt)
       THEN /\ WindowFatal("requester")
            /\ UNCHANGED <<attempt, sleeps>>
       ELSE /\ sleeps' = Append(sleeps, sleep_time(attempt))
            /\ attempt' = attempt + 1
            /\ UNCHANGED <<pc, current_date, outcome, cause, first_fatal,
                           trailing_empty, trailing_other>>
    /\ UNCHANGED <<configs, file, sink, now, date_start, date_end, offset,
                   processed_items, runs, fetch_calls, commits, lsd_before,
                   first_exhausted, offered, persist_failed, crash_window>>
    /\ UNCHANGED acct
    /\ UNCHANGED pages
    /\ UNCHANGED replay
    /\ UNCHANGED inflight
    /\ UNCHANGED sinkobs
    /\ UNCHANGED disk
    /\ UNCHANGED prev_empty
    /\ UNCHANGED startobs

\* Requester.__call__, line 74: the attempts are used up
RequestExhausted ==
    /\ pc = "request"
    /\ attempt > configs.max_attempts
    /\ WindowFatal("requester")
    /\ UNCHANGED <<configs, file, sink, now, date_start, date_end, offset,
                   attempt, processed_items, runs, fetch_calls, commits,
                   attempts_made, sleeps, lsd_before, first_exhausted, offered,
                   persist_failed, crash_window>>
    /\ UNCHANGED acct
    /\ UNCHANGED pages
    /\ UNCHANGED replay
    /\ UNCHANGED inflight
    /\ UNCHANGED sinkobs
    /\ UNCHANGED disk
    /\ UNCHANGED prev_empty
    /\ UNCHANGED startobs

\* fetch_articles_in_date_range, line 78: Saver.__call__ appends to the csv
SaverAppends ==
    /\ pc = "save"
    /\ LET y == construct_output_filepath(date_start) IN
         /\ sink' = [sink EXCEPT ![y] = saver_lines(sink[y], processed_items,
                                                 y \in sink_exists)]
         /\ sink_exists' = sink_exists \cup {y}
    /\ pc' = "update"
    /\ UNCHANGED <<configs, file, now, prog, runs, obs>>
    /\ UNCHANGED acct
    /\ appended_now' = appended_now \cup {<<date_start, offset>>}
    /\ UNCHANGED <<committed_now, appended_prev, committed_prev>>
    /\ UNCHANGED replay
    /\ UNCHANGED inflight
    /\ UNCHANGED sinkobs
    /\ UNCHANGED trail
    /\ UNCHANGED startobs

\* Saver.__call__, lines 30-35, does not reach its end: to_csv stops before
\* the file is opened, or after open(path, "a") created it and some of the
\* lines (none, when the buffer was never flushed) were written
SaverInterrupted ==
    LET y == construct_output_filepath(date_start) IN
      \/ UNCHANGED <<sink, sink_exists>>
      \/ \E csv \in saver_lines_written(sink[y], processed_items,
                                        y \in sink_exists) :
            /\ sink' = [sink EXCEPT ![y] = csv]
            /\ sink_exists' = sink_exists \cup {y}

\* fetch_articles_in_date_range, line 78: to_csv raises
SaverFails ==
    /\ pc = "save"
    /\ SaverInterrupted
    /\ sink_failed' = TRUE
    /\ UNCHANGED rows_at_start
    /\ WindowFatal("saver")
    /\ UNCHANGED <<configs, file, now, date_start, date_end, offset,
                   attempt, processed_items, runs, fetch_calls, commits,
                   attempts_made, sleeps, lsd_before, first_exhausted, offered,
                   persist_failed, crash_window>>
    /\ UNCHANGED acct
    /\ appended_now' = IF SinkRows(sink') > SinkRows(sink)
                       THEN appended_now \cup {<<date_start, offset>>}
                       ELSE appended_now
    /\ UNCHANGED <<committed_now, appended_prev, committed_prev>>
    /\ UNCHANGED replay
    /\ UNCHANGED inflight
    /\ UNCHANGED prev_empty
    /\ UNCHANGED startobs

\* Config.update, lines 116-129, and lines 84, 125 and 71 of scraper.py: the
\* state is written and the next page's Requester call begins
UpdateCommits ==
    /\ pc = "update"
    /\ configs' = update_configs(configs, processed_items, date_end)
    /\ file' = FileOf(configs')
    /\ offset' = next_offset(offset, configs.limit)
    /\ attempt' = 1
    /\ pc' = "request"
    /\ commits' = commits + 1
    /\ fetch_calls' = fetch_calls + 1
    /\ attempts_made' = 0
    /\ sleeps' = <<>>
    /\ UNCHANGED <<sink, now, current_date, date_start, date_end,
                   processed_items, runs, lsd_before, outcome, cause,
                   first_exhausted, first_fatal, offered, persist_failed,
                   crash_window>>
    /\ accepted_sum' = accepted_sum + page_accepted
    /\ committed_windows' = committed_windows + (IF commits = 0 THEN 1 ELSE 0)
    /\ UNCHANGED <<total_at_start, fresh, page_accepted>>
    /\ committed_now' = committed_now \cup {<<date_start, offset>>}
    /\ UNCHANGED <<appended_now, appended_prev, committed_prev>>
    /\ replayed' = (replayed \/ SameCall(CommitCall, lost_commit))
    /\ UNCHANGED lost_commit
    /\ page_raw' = 0
    /\ UNCHANGED sinkobs
    /\ UNCHANGED disk
    /\ trailing_empty' = {} /\ trailing_other' = FALSE
    /\ UNCHANGED prev_empty
    /\ UNCHANGED startobs

\* Config.update, lines 123-129: open(path, "w") or json.dump raises after
\* the in-memory mapping was changed; the file is untouched (open raised) or
\* truncated (the write raised)
UpdateFails ==
    /\ pc = "update"
    /\ configs' = update_configs(configs, processed_items, date_end)
    /\ file' \in {file, Corrupt}
    /\ persist_failed' = TRUE
    /\ WindowFatal("persist")
    /\ UNCHANGED <<sink, now, date_start, date_end, offset, attempt,
                   processed_items, runs, fetch_calls, commits, attempts_made,
                   sleeps, lsd_before, first_exhausted, offered, crash_window>>
    /\ UNCHANGED acct
    /\ UNCHANGED pages
    /\ replayed' = (replayed \/ SameCall(CommitCall, lost_commit))
    /\ UNCHANGED lost_commit
    /\ UNCHANGED inflight
    /\ UNCHANGED sinkobs
    /\ UNCHANGED disk
    /\ UNCHANGED prev_empty
    /\ UNCHANGED startobs

\* time passes; the clock is read at line 107 of scraper.py only, so the
\* model lets it advance just before it is read
Tick ==
    /\ pc = "date_iter"
    /\ now < MaxNow
    /\ now' = now + 1
    /\ UNCHANGED <<configs, file, sink, pc, prog, runs, obs>>
    /\ UNCHANGED acct
    /\ UNCHANGED pages
    /\ UNCHANGED replay
    /\ UNCHANGED inflight
    /\ UNCHANGED sinkobs
    /\ UNCHANGED disk
    /\ UNCHANGED trail
    /\ UNCHANGED startobs

\* the process is killed while it drains a window; killed inside
\* Config.update between open(path, "w") and the end of json.dump, it leaves
\* a truncated file; killed inside Saver.__call__, it leaves what to_csv had
\* written
Crash ==
    /\ pc \in {"request", "save", "update"}
    /\ runs < MaxRuns
    /\ pc' = "down"
    /\ file' \in IF pc = "update" THEN {file, Corrupt} ELSE {file}
    /\ crash_window' = date_start
    /\ IF pc = "save" THEN SaverInterrupted ELSE UNCHANGED <<sink, sink_exists>>
    /\ UNCHANGED <<configs, now, prog, runs, fetch_calls, commits,
                   attempts_made, sleeps, lsd_before, outcome, cause,
                   first_exhausted, first_fatal, offered, persist_failed>>
    /\ UNCHANGED acct
    /\ appended_now' = IF SinkRows(sink') > SinkRows(sink)
                       THEN appended_now \cup {<<date_start, offset>>}
                       ELSE appended_now
    /\ UNCHANGED <<committed_now, appended_prev, committed_prev>>
    /\ lost_commit' = IF pc = "update" THEN CommitCall ELSE NoCommit
    /\ UNCHANGED replayed
    /\ UNCHANGED inflight
    /\ UNCHANGED sinkobs
    /\ UNCHANGED trail
    /\ UNCHANGED startobs

\* the next run: Config.__init__ loads the file, date_iterable starts at
\* line 105
Restart ==
    /\ pc \in {"down", "done"}
    /\ runs < MaxRuns
    /\ file.ok
    /\ runs' = runs + 1
    /\ configs' = file.data
    /\ current_date' = last_scraped_date(configs')
    /\ pc' = "date_iter"
    /\ date_start' = 0 /\ date_end' = 0 /\ offset' = 0 /\ attempt' = 1
    /\ processed_items' = 0
    /\ fetch_calls' = 0 /\ commits' = 0 /\ attempts_made' = 0 /\ sleeps' = <<>>
    /\ lsd_before' = last_scraped_date(configs')
    /\ outcome' = "none" /\ cause' = "none" /\ first_exhausted' = -1
    /\ first_fatal' = -1 /\ offered' = {} /\ persist_failed' = FALSE
    /\ crash_window' = IF pc = "down" THEN crash_window ELSE -1
    /\ UNCHANGED <<file, sink, now>>
    /\ total_at_start' = configs'.total
    /\ fresh' = (configs'.last_scraped_date = None)
    /\ accepted_sum' = 0 /\ committed_windows' = 0 /\ page_accepted' = 0
    /\ appended_prev' = appended_prev \cup appended_now
    /\ committed_prev' = committed_prev \cup committed_now
    /\ appended_now' = {} /\ committed_now' = {}
    /\ lost_commit' = IF pc = "down" THEN lost_commit ELSE NoCommit
    /\ replayed' = FALSE
    /\ page_raw' = 0
    /\ rows_at_start' = SinkRows(sink) /\ sink_failed' = FALSE
    /\ UNCHANGED disk
    /\ prev_empty' = IF pc = "done" /\ ~trailing_other
                     THEN trailing_empty ELSE {}
    /\ trailing_empty' = {} /\ trailing_other' = FALSE
    /\ lsd_at_start' = last_scraped_date(configs')

\* the next run cannot start: json.load raises on the truncated file
RestartFails ==
    /\ pc \in {"down", "done"}
    /\ runs < MaxRuns
    /\ ~file.ok
    /\ runs' = runs + 1
    /\ pc' = "aborted"
    /\ UNCHANGED <<configs, file, sink, now, prog, obs>>
    /\ UNCHANGED acct
    /\ UNCHANGED pages
    /\ UNCHANGED replay
    /\ UNCHANGED inflight
    /\ UNCHANGED sinkobs
    /\ UNCHANGED disk
    /\ UNCHANGED trail
    /\ UNCHANGED startobs

Next ==
    \/ DateIterNext
    \/ DateIterStop
    \/ RequestReturns
    \/ RequestFails
    \/ RequestExhausted
    \/ SaverAppends
    \/ SaverFails
    \/ UpdateCommits
    \/ UpdateFails
    \/ Tick
    \/ Crash
    \/ Restart
    \/ RestartFails

Spec == Init /\ [][Next]_vars

\* one run of `python scraper.py` that nothing kills: begin's for loop goes
\* on as long as it has a step to take, and the clock stops at MaxNow
Step ==
    \/ DateIterNext
    \/ DateIterStop
    \/ RequestReturns
    \/ RequestFails
    \/ RequestExhausted
    \/ SaverAppends
    \/ SaverFails
    \/ UpdateCommits
    \/ UpdateFails

NextRun ==
    \/ DateIterNext
    \/ DateIterStop
    \/ RequestReturns
    \/ RequestFails
    \/ RequestExhausted
    \/ SaverAppends
    \/ SaverFails
    \/ UpdateCommits
    \/ UpdateFails
    \/ Tick

SpecRun == Init /\ [][NextRun]_vars /\ WF_vars(Step)

(* ------------------------------ properties ---------------------------- *)

\* C1: within one process lifetime (every step the running process or the
\* clock takes, window-fatal failures and persistence failures included) the
\* Cursor's last_scraped_date never decreases and its total never decreases
C1_CursorMonotone ==
    [][(pc \in Running) =>
          ((last_scraped_date(configs') >= last_scraped_date(configs))
           /\ (configs'.total >= configs.total))]_vars

\* C1 witness: a window committed a page, advanced the Cursor and then ended
\* in a window-fatal failure
C1_Witness ==
    /\ outcome = "fatal"
    /\ commits >= 1
    /\ last_scraped_date(configs) > lsd_before

\* C2 as claimed: after a kill while a window was being drained, the run that
\* follows fetches the pages of that window that were not committed; for that
\* it has to be offered the interrupted window
C2_InterruptedWindowResumed ==
    (pc = "done" /\ crash_window # -1) => crash_window \in offered

\* C3 as claimed: when the Requester has failed on every one of its attempts,
\* at whatever offset, the Cursor's last_scraped_date is what it was when the
\* window began
C3_FetchFailureKeepsCursorDate ==
    (outcome = "fatal" /\ cause = "requester"
        /\ attempts_made = configs.max_attempts)
    => last_scraped_date(configs) = lsd_before

\* C4 as claimed: once a window of the run ended in a window-fatal failure,
\* the persisted last_scraped_date is not past that window's start for the
\* rest of the run
C4_FailedWindowNotPassed ==
    (pc \in Running \cup {"done"} /\ first_fatal # -1 /\ file.ok)
    => last_scraped_date(file.data) <= first_fatal

\* C5 as claimed: after Config.update failed to write the file, the run makes
\* no further Requester call, csv append or update
C5_PersistenceFailureHaltsRun ==
    persist_failed => pc \notin {"request", "save", "update"}

\* C6 as claimed: the Cursor in memory and the Cursor in the file never
\* differ while the process runs
C6_CommitAllOrNothing ==
    pc \in Running =>
        /\ file.ok
        /\ file.data.total = configs.total
        /\ file.data.last_scraped_date = configs.last_scraped_date

\* C7 as claimed: a Requester call that fails has made exactly max_attempts
\* request attempts
C7_ExactlyMaxAttempts ==
    (outcome = "fatal" /\ cause = "requester")
    => attempts_made = configs.max_attempts

\* C8 as claimed: a failing Requester call with max_attempts = M >= 1 has
\* slept M-1 times, the i-th time for i * WaitDelta
C8_LinearBackoffSleeps ==
    (outcome = "fatal" /\ cause = "requester" /\ configs.max_attempts >= 1)
    => /\ Len(sleeps) = configs.max_attempts - 1
       /\ \A i \in 1..Len(sleeps) : sleeps[i] = i * WaitDelta

\* C9: a window-fatal failure does not end the run: the failure leaves the
\* process at date_iterable with the failed window's end as the next start,
\* and from there the next window offered starts at the failed window's end
\* when that is before now, and the run ends otherwise
C9_FatalWindowDoesNotAbort ==
    [][((outcome' = "fatal" /\ outcome # "fatal")
            => (pc' = "date_iter" /\ current_date' = date_end))
       /\
       ((outcome = "fatal" /\ pc = "date_iter" /\ pc' # "date_iter")
            => (IF current_date < now
                THEN pc' = "request" /\ date_start' = date_end /\ offset' = 0
                ELSE pc' = "done"))]_vars

\* C9 witness: after a window ended fatally, a later window is being drained
C9_Witness ==
    /\ pc = "request"
    /\ first_fatal # -1
    /\ date_start > first_fatal

\* C10: an ok response with total = 0 or no items ends the window normally
\* at once, and a window that ended normally ended at the first such
\* response, at an offset K with K / limit updates and K / limit + 1
\* Requester calls made for the window
C10_PaginationTermination ==
    /\ first_exhausted # -1 =>
           outcome = "normal" /\ pc \notin {"request", "save", "update"}
    /\ outcome = "normal" =>
           /\ first_exhausted = offset
           /\ commits * configs.limit = offset
           /\ fetch_calls = commits + 1

\* C10 witness: a window ended normally at the offset of its second page
C10_Witness ==
    /\ outcome = "normal"
    /\ offset = configs.limit
    /\ commits = 1
    /\ fetch_calls = 2

\* the window width of a configuration, in ticks: threshold whole days
WindowWidth(c) == c.threshold * TicksPerDay

\* C11 as claimed: in a run that began with a fresh Cursor and had no
\* window-fatal failure, after N windows that committed a page
\* last_scraped_date is start_date + N * width and total is the initial
\* total plus the acceptable records of the committed pages
C11_AfterNCommittedWindows ==
    (pc \in Running /\ fresh /\ first_fatal = -1) =>
        /\ last_scraped_date(configs) =
               string_to_date(configs.start_date)
                 + committed_windows * WindowWidth(configs)
        /\ configs.total = total_at_start + accepted_sum

\* C11 amended: in such a run total is the initial total plus the acceptable
\* records of the committed pages, and once the N-th window offered (empty
\* windows are counted: they commit nothing and leave the Cursor alone) has
\* committed a page, last_scraped_date is start_date + N * width
C11_AfterNthWindow ==
    (pc \in Running /\ fresh /\ first_fatal = -1) =>
        /\ configs.total = total_at_start + accepted_sum
        /\ commits >= 1 =>
               last_scraped_date(configs) =
                   string_to_date(configs.start_date)
                     + Cardinality(offered) * WindowWidth(configs)
        /\ committed_windows = 0 =>
               last_scraped_date(configs) = string_to_date(configs.start_date)

\* C11 witness: the second window of a fresh run committed a page with an
\* acceptable record after an empty first window
C11_Witness ==
    /\ fresh /\ first_fatal = -1 /\ pc = "request"
    /\ Cardinality(offered) = 2 /\ committed_windows = 1 /\ commits = 1
    /\ accepted_sum >= 1

\* C12 as claimed: in a run started after the process was killed in the
\* middle of a page, the pages appended to the csv a second time are at most
\* one, and none of them is a page whose update had completed
C12_AtMostOnePageDuplicated ==
    crash_window # -1 =>
        /\ Cardinality(appended_now \cap appended_prev) <= 1
        /\ appended_now \cap committed_prev = {}

\* the step in which a run makes again, with the same arguments, the
\* Config.update call that the kill of the run before interrupted
ReplayStep ==
    /\ pc = "update" /\ pc' \in {"request", "date_iter"}
    /\ SameCall(CommitCall, lost_commit)

\* C13: replaying commit(added = a, through = d) after a crash leaves
\* last_scraped_date equal to d and counts a once: total is a above the total
\* persisted before the first call (plus what this run committed before the
\* replay), not 2a above it
C13_ReplayedCommit ==
    [][ReplayStep =>
          ( (last_scraped_date(configs') = string_to_date(date_to_string(lost_commit.through)))
            /\ (configs'.total = configs.total + lost_commit.added)
            /\ (~persist_failed => configs.total = lost_commit.persisted + accepted_sum)
            /\ (total_at_start = lost_commit.persisted) )]_vars

C13_Witness ==
    /\ replayed /\ lost_commit.added >= 1 /\ pc = "request"
    /\ last_scraped_date(configs) = lost_commit.through
    /\ configs.total = lost_commit.persisted + lost_commit.added

\* the step in which date_iterable yields a window
WindowYielded == pc = "date_iter" /\ pc' = "request"

\* C14: the first window of a run starts at the persisted last_scraped_date
\* (at start_date when none is persisted), every later window starts where
\* the one before ended, and a window is yielded only if its start is before
\* the clock as read at that step
C14_WindowSequence ==
    [][WindowYielded =>
          ( (date_start' < now')
            /\ (offered = {} =>
                  date_start' = IF configs.last_scraped_date = None
                                   THEN string_to_date(configs.start_date)
                                   ELSE string_to_date(configs.last_scraped_date))
            /\ (offered # {} => date_start' = date_end)
            /\ (date_start' \notin offered) )]_vars

C14_Witness ==
    /\ pc = "request" /\ Cardinality(offered) = 2
    /\ date_start = date_end - time_delta(configs)
    /\ date_start > string_to_date(configs.start_date)
    /\ date_start < now

\* the number of data rows of a csv file
RowsOf(csv) == Cardinality({ i \in 1..Len(csv) : csv[i] = "row" })

\* C15: the rows a page appends to the sink and the count its commit adds to
\* total both equal the number of the page's raw records that have a
\* non-empty headline and a non-empty body; records lacking either are left
\* out of both
C15_OnlyAcceptableCounted ==
    [][ ( (pc = "save" /\ pc' = "update") =>
             \A y \in Years :
                RowsOf(sink'[y]) - RowsOf(sink[y]) =
                   IF y = construct_output_filepath(date_start)
                   THEN page_accepted ELSE 0 )
        /\ ( (pc = "update" /\ pc' \in {"request", "date_iter"}) =>
                configs'.total = configs.total + page_accepted ) ]_vars

C15_Witness ==
    /\ pc = "request" /\ commits = 1 /\ committed_now # {}
    /\ page_accepted = 0 /\ processed_items = 0
    /\ configs.total = total_at_start
    /\ \A y \in Years : RowsOf(sink[y]) = 0
    /\ \E y \in Years : Len(sink[y]) = 1

\* C16 as claimed: a record whose content field is missing from the raw
\* record is dropped alone and never makes its window end in a window-fatal
\* failure
C16_MalformedRecordNonFatal ==
    ~(outcome = "fatal" /\ cause = "KeyError")

\* a csv file is empty, or one header line followed by data rows only
OneHeader(csv) ==
    \/ csv = <<>>
    \/ /\ csv[1] = "header"
       /\ \A i \in 2..Len(csv) : csv[i] = "row"

\* C17 as claimed: every partition of the sink holds exactly one header, at
\* its top, and every step leaves the lines a partition already had in
\* place, adding lines after them only
C17_OneHeaderAppendOnly ==
    /\ [](\A y \in Years : OneHeader(sink[y]))
    /\ [][\A y \in Years :
             /\ Len(sink'[y]) >= Len(sink[y])
             /\ SubSeq(sink'[y], 1, Len(sink[y])) = sink[y]]_vars

\* C18: with a window width of at least one day and every window's results
\* reporting exhaustion after finitely many pages, an unkilled run reaches the
\* state in which date_iterable yields no further window, whatever windows
\* succeeded or failed on the way
C18_HarvestTerminates ==
    <>(pc = "done")

C18_Witness ==
    /\ pc = "done"
    /\ Cardinality(offered) = 2
    /\ first_fatal # -1
    /\ committed_now # {}

\* C19: a page is appended to the sink only after its fetch returned, the
\* cursor changes only in the update of a page that has already been
\* appended, and that update sets last_scraped_date to the end of the window
\* being drained
C19_FetchAppendCommitOrder ==
    [][ ( (pc = "save" /\ pc' = "update") =>
             (attempts_made >= 1 /\ <<date_start, offset>> \notin committed_now) )
        /\ ( (pc \in Running /\ configs' # configs) =>
                (pc = "update" /\ <<date_start, offset>> \in appended_now) )
        /\ ( (pc = "update" /\ pc' \in {"request", "date_iter"}) =>
                ( (<<date_start, offset>> \in appended_now)
                  /\ (last_scraped_date(configs') = date_end) ) ) ]_vars

C19_Witness ==
    /\ pc = "request" /\ commits = 1 /\ offset > 0
    /\ <<date_start, 0>> \in appended_now \cap committed_now
    /\ last_scraped_date(configs) = date_end
    /\ date_end > date_start
    /\ configs.total > total_at_start

\* C20: the k-th Requester call of a window is passed the offset
\* (k - 1) * limit, so the offsets of a window are 0, limit, 2 * limit, ...
\* with none skipped or repeated, and every window yielded starts again at
\* offset 0 however the window before it ended
C20_OffsetSequence ==
    /\ [](pc = "request" => offset = (fetch_calls - 1) * configs.limit)
    /\ [][ ( (pc = "date_iter" /\ pc' = "request") =>
                (offset' = 0 /\ fetch_calls' = 1) )
           /\ ( (pc = "update" /\ pc' = "request") =>
                  (offset' = offset + configs.limit
                   /\ fetch_calls' = fetch_calls + 1) )
           /\ ( (pc \in {"request", "save"} /\ pc' \in {"request", "save", "update"}) =>
                  (offset' = offset /\ fetch_calls' = fetch_calls) ) ]_vars

C20_Witness ==
    /\ pc = "request" /\ configs.limit = 2
    /\ fetch_calls = 2 /\ offset = 2
    /\ Cardinality(offered) = 2 /\ first_fatal = 0 /\ date_start > 0

\* C21: a response with at least one raw record (and a total that is not 0)
\* never ends its window, whatever the acceptance filter keeps of it: it goes
\* on to the saver, and when the filter kept nothing the page appends no row,
\* its update adds 0 to total, sets last_scraped_date to the window end and
\* the next request is made at the next offset
C21_RejectedPageContinues ==
    [][ ( (pc = "request" /\ page_raw' >= 1) =>
             (pc' = "save" /\ outcome' = outcome /\ offset' = offset) )
        /\ ( (pc = "save" /\ pc' = "update" /\ page_accepted = 0) =>
                (\A y \in Years : RowsOf(sink'[y]) = RowsOf(sink[y])) )
        /\ ( (pc = "update" /\ pc' = "request" /\ page_accepted = 0) =>
                ( (configs'.total = configs.total)
                  /\ (last_scraped_date(configs') = date_end)
                  /\ (offset' = offset + configs.limit) ) ) ]_vars

C21_Witness ==
    /\ pc = "request" /\ offset = configs.limit /\ commits = 1
    /\ page_accepted = 0 /\ page_raw = 0
    /\ <<date_start, 0>> \in committed_now
    /\ configs.total = total_at_start
    /\ lsd_before < date_end
    /\ last_scraped_date(configs) = date_end

\* no page is between its fetch and its update
NoPageInFlight == pc \in {"date_iter", "request", "done"}

LastCommitEnd ==
    IF committed_now = {}
    THEN lsd_at_start
    ELSE LET last == CHOOSE p \in committed_now :
                        \A q \in committed_now : q[1] <= p[1]
         IN  last[1] + WindowWidth(configs)

\* the earliest of a set of window starts
Earliest(starts) == CHOOSE d \in starts : \A e \in starts : d <= e

\* C23: a window exhausted at offset 0 makes no update, so the persisted
\* last_scraped_date stays at the end of the last window that committed a
\* page, and the run after a run that ended with empty windows starts from
\* that date and offers every one of those windows again
C23_EmptyWindowsReoffered ==
    /\ [](/\ (first_exhausted = 0 => (commits = 0 /\ offset = 0))
          /\ (file.ok /\ pc \in Running \cup {"done"} =>
                 last_scraped_date(file.data) = LastCommitEnd)
          /\ (prev_empty # {} /\ offered # {} =>
                 Earliest(offered) = Earliest(prev_empty)
                 /\ Earliest(offered) = lsd_at_start)
          /\ (prev_empty # {} /\ pc = "done" => prev_empty \subseteq offered))
    /\ [][(pc = "request" /\ first_exhausted' = 0 /\ first_exhausted = -1) =>
             (configs' = configs /\ file' = file /\ pc' = "date_iter")]_vars

C23_Witness ==
    /\ pc = "done" /\ runs = 2
    /\ Cardinality(prev_empty) = 2
    /\ prev_empty \subseteq offered
    /\ lsd_at_start = Earliest(prev_empty)

\* C24: in every state the persisted last_scraped_date is the date this run
\* loaded plus a whole number (0 or more) of window widths, and it is less
\* than now plus one window width
C24_CursorOnGridBelowNow ==
    file.ok =>
        LET persisted == last_scraped_date(file.data) IN
          /\ persisted >= lsd_at_start
          /\ (persisted - lsd_at_start) % WindowWidth(configs) = 0
          /\ persisted < now + WindowWidth(configs)

C24_Witness ==
    /\ pc = "done" /\ file.ok
    /\ last_scraped_date(file.data) = lsd_at_start + 2 * WindowWidth(configs)
    /\ last_scraped_date(file.data) > now

====
